---- MODULE Spec2Model ----
(***************************************************************************)
(* A model of the xaudial scripts:                                         *)
(*   spotipy2.py            SpotifyFlowAnalyzer (get_playlist_tracks,      *)
(*                          collect_all_tracks, get_audio_features_batch,  *)
(*                          analyze_tracks)                                *)
(*   upload.py              create_flow_playlist (batched playlist upload) *)
(*   consolidated_genres.py GenreConsolidator                              *)
(*   genre-split.py         SpotifyGenreOrganizer.get_artist_genres        *)
(* Each is a state machine of its own; the specifications below (Spec,     *)
(* SpecClassify, SpecCollect, SpecItems, SpecPages, SpecCache, SpecGenres) *)
(* run one of them each and leave the variables of the others at rest.     *)
(*                                                                         *)
(* Units: tempo in BPM, loudness in dB, energy in hundredths (0.85 is 85), *)
(* so that the thresholds of FlowStateThresholds are integers.             *)
(***************************************************************************)
EXTENDS Integers, Sequences, FiniteSets, TLC

VARIABLES
    pc,              \* position of the running script
    \* ---- spotipy2.py analyze_tracks / upload.py create_flow_playlist
    script,          \* which script runs: "spotipy2" or "upload"
    track_ids,       \* the list of ids handed to the batching loop
    track_metadata,  \* dict track id -> name, artists, playlists
    batch_size,      \* self.batch_size / batch_size
    bi,              \* index (1-based) of the next batch of the for loop
    results,         \* analyze_tracks: the rows appended so far
    requests,        \* the remote's log: one entry per audio_features /
                     \* playlist_add_items call, in call order
    sleeps,          \* number of time.sleep(2) calls made so far
    \* ---- the classification block of analyze_tracks, on its own
    features,        \* the feature record under classification
    verdict,         \* its classification, once computed
    \* ---- spotipy2.py collect_all_tracks (track_ids is the list it returns,
    \*      track_metadata the dict it builds)
    playlist_ids,    \* the argument: a list of playlist id strings
    pi,              \* index (1-based) of the next playlist of the for loop
    all_track_ids,   \* the set of ids seen
    playlist_info,   \* dict playlist id -> playlist name
    tracks,          \* consolidate_genres: the track list of the key read last;
                     \* collect_all_tracks: the items under `for item in tracks`;
                     \* get_playlist_tracks: the list built so far
    appears,         \* history: track id -> the loop indices of the processed
                     \* playlists that list it
    first_seen,      \* history: the ids in the order they were first seen
    item_no,         \* index (1-based) of the next item of `for item in tracks`
    \* ---- spotipy2.py get_playlist_tracks (tracks is the list it builds)
    remote,          \* the items of the playlist as the remote holds them
    limit,           \* page size of a request
    offset,          \* offset of the next request
    \* ---- genre-split.py SpotifyGenreOrganizer.get_artist_genres
    genre_cache,     \* self.genre_cache: dict artist id -> list of genres
    artist_id,       \* the argument of the call made last
    returned,        \* the value that call returned
    calls,           \* history: artist id -> number of sp.artist calls made
    \* ---- consolidated_genres.py GenreConsolidator
    genre_mappings,  \* self.genre_mappings: category -> set of subgenres, in
                     \* dict order
    keys_done,       \* the keys of genre_data the loop has been through
    subgenre,        \* loop variable: the key read last
    main_genre,      \* loop variable: the category of that key
    main_genre_tracks, \* dict category -> list of track records
    seen_tracks,     \* dict category -> set of track ids
    listed,          \* history: the <<key, track id>> pairs read so far
    files,           \* the CSV files written
    report           \* the lines of consolidation_report.txt

varsBatch ==
    <<script, track_ids, track_metadata, batch_size, bi, results, requests, sleeps>>
varsClassify == <<features, verdict>>
varsCollect ==
    <<playlist_ids, pi, all_track_ids, playlist_info, appears, first_seen, item_no>>
varsPages == <<remote, limit, offset>>
varsCache == <<genre_cache, artist_id, returned, calls>>
varsGenres ==
    <<genre_mappings, keys_done, subgenre, main_genre, main_genre_tracks,
      seen_tracks, listed, files, report>>
vars ==
    <<pc, varsBatch, varsClassify, varsCollect, tracks, varsGenres, varsPages,
      varsCache>>

----------------------------------------------------------------------------
(* Bounds of the model. *)

\* longest list of track ids handed to analyze_tracks / create_flow_playlist
MaxIds == 3
\* largest batch size drawn
MaxBatch == 3
\* how far around each threshold the classified values range
Margin == 1
\* longest list of playlist ids handed to collect_all_tracks
MaxPlaylists == 2
\* most items a playlist holds
MaxItems == 2
\* most tracks listed under one key of genre_data
MaxTracksPerGenre == 2
\* most keys genre_data holds
MaxGenres == 2

\* most items the playlists before the one under the item loop have listed
MaxPrior == 1
\* most items the playlist read by get_playlist_tracks holds
MaxRemote == 6
\* largest page size drawn for get_playlist_tracks
MaxLimit == 3
\* most sp.artist calls made in a run of the genre organizer
MaxLookups == 3
\* Python's None, for a value that is otherwise a record
None == [none |-> TRUE]

AllTrackIds == {"t1", "t2", "t3", "t4"}

Min(a, b) == IF a < b THEN a ELSE b

Range(s) == {s[k] : k \in DOMAIN s}

\* all sequences over S of length at most n
SeqsUpTo(S, n) == UNION {[1..k -> S] : k \in 0..n}

\* sequences without a repeated element
IsInjective(s) == \A a, b \in DOMAIN s : s[a] = s[b] => a = b

----------------------------------------------------------------------------
(* FlowStateThresholds and the classification block of analyze_tracks. *)

FlowStateThresholds ==
    [min_tempo |-> 140, max_tempo |-> 900,
     min_loudness |-> -7, max_loudness |-> 0,
     min_energy |-> 85, mode |-> 1]

\* self.thresholds, set in __init__ and never assigned again
thresholds == FlowStateThresholds

\* the four `if` conditions of analyze_tracks, each true when the dimension fails
TempoFailsStrict(f, th) == ~(th.min_tempo < f.tempo /\ f.tempo < th.max_tempo)
TempoFails(f, th) == ~(th.min_tempo <= f.tempo /\ f.tempo <= th.max_tempo)

LoudnessFails(f, th) == ~(th.min_loudness <= f.loudness /\ f.loudness <= th.max_loudness)

EnergyFails(f, th) == f.energy < th.min_energy

ModeFails(f, th) == f.mode # th.mode

\* the f-strings appended to reasons: the dimension and the offending value
TempoReason(f) == [dim |-> "Tempo", value |-> f.tempo, unit |-> "BPM"]
LoudnessReason(f) == [dim |-> "Loudness", value |-> f.loudness, unit |-> "dB"]
EnergyReason(f) == [dim |-> "Energy", value |-> f.energy, unit |-> ""]
ModeReason == [dim |-> "Minor mode"]

\* reasons after the four ifs, in the order the ifs run
ReasonsFirstOnly(f, th) ==
    IF TempoFails(f, th) THEN <<TempoReason(f)>>
    ELSE IF LoudnessFails(f, th) THEN <<LoudnessReason(f)>>
    ELSE IF EnergyFails(f, th) THEN <<EnergyReason(f)>>
    ELSE IF ModeFails(f, th) THEN <<ModeReason>>
    ELSE <<>>
Reasons(f, th) ==
    (IF TempoFails(f, th) THEN <<TempoReason(f)>> ELSE <<>>)
    \o (IF LoudnessFails(f, th) THEN <<LoudnessReason(f)>> ELSE <<>>)
    \o (IF EnergyFails(f, th) THEN <<EnergyReason(f)>> ELSE <<>>)
    \o (IF ModeFails(f, th) THEN <<ModeReason>> ELSE <<>>)

\* meets_criteria starts True and each failing if sets it False
MeetsIgnoringMode(f, th) ==
    ~TempoFails(f, th) /\ ~LoudnessFails(f, th) /\ ~EnergyFails(f, th)
MeetsCriteria(f, th) ==
    ~TempoFails(f, th) /\ ~LoudnessFails(f, th) /\ ~EnergyFails(f, th)
    /\ ~ModeFails(f, th)

\* "; ".join(parts): the parts with the separator between neighbours
RECURSIVE Join(_, _)
Join(sep, parts) ==
    IF Len(parts) = 0 THEN <<>>
    ELSE IF Len(parts) = 1 THEN <<parts[1]>>
    ELSE <<parts[1], sep>> \o Join(sep, Tail(parts))

\* "; ".join(reasons) if reasons else "All criteria met"
ReasonsColumn(reasons) ==
    IF reasons # <<>> THEN Join("; ", reasons) ELSE <<"All criteria met">>

\* meets_criteria and reasons as computed for one feature record
Classify(f, th) ==
    [meets_criteria |-> MeetsCriteria(f, th), reasons |-> Reasons(f, th)]

\* the dict appended to results for one track
ResultRow(track_id, metadata, f, th) ==
    [name |-> metadata.name,
     artists |-> metadata.artists,
     id |-> track_id,
     playlists |-> Join("; ", metadata.playlists),
     meets_criteria |-> Classify(f, th).meets_criteria,
     reasons |-> ReasonsColumn(Classify(f, th).reasons),
     tempo |-> f.tempo, loudness |-> f.loudness,
     energy |-> f.energy, mode |-> f.mode]

\* feature values around the thresholds
TempoValues ==
    ((thresholds.min_tempo - Margin)..(thresholds.min_tempo + Margin))
    \cup ((thresholds.max_tempo - Margin)..(thresholds.max_tempo + Margin))
LoudnessValues ==
    ((thresholds.min_loudness - Margin)..(thresholds.min_loudness + Margin))
    \cup ((thresholds.max_loudness - Margin)..(thresholds.max_loudness + Margin))
EnergyValues == (thresholds.min_energy - Margin)..(thresholds.min_energy + Margin)
ModeValues == {0, 1}

FeatureGrid ==
    [tempo : TempoValues, loudness : LoudnessValues,
     energy : EnergyValues, mode : ModeValues]

\* the state the batching variables rest in while another script runs
BatchIdle ==
    /\ script = "none"
    /\ track_ids = <<>>
    /\ track_metadata = <<>>
    /\ batch_size = 1
    /\ bi = 1
    /\ results = <<>>
    /\ requests = <<>>
    /\ sleeps = 0

ClassifyIdle ==
    /\ features = None
    /\ verdict = None

CollectIdle ==
    /\ playlist_ids = <<>>
    /\ pi = 1
    /\ all_track_ids = {}
    /\ playlist_info = <<>>
    /\ appears = <<>>
    /\ first_seen = <<>>
    /\ item_no = 1

PagesIdle ==
    /\ remote = <<>>
    /\ limit = 1
    /\ offset = 0

CacheIdle ==
    /\ genre_cache = <<>>
    /\ artist_id = ""
    /\ returned = <<>>
    /\ calls = <<>>

GenresIdle ==
    /\ genre_mappings = <<>>
    /\ keys_done = {}
    /\ subgenre = <<>>
    /\ main_genre = ""
    /\ main_genre_tracks = <<>>
    /\ seen_tracks = <<>>
    /\ listed = {}
    /\ files = {}
    /\ report = <<>>

OthersIdleBatch ==
    ClassifyIdle /\ CollectIdle /\ tracks = <<>> /\ GenresIdle /\ PagesIdle /\ CacheIdle
OthersIdleClassify ==
    BatchIdle /\ CollectIdle /\ tracks = <<>> /\ GenresIdle /\ PagesIdle /\ CacheIdle

InitClassify ==
    /\ pc = "classify"
    /\ features \in FeatureGrid
    /\ verdict = None
    /\ OthersIdleClassify

\* lines 159-177 of analyze_tracks applied to one feature record
ClassifyRecord ==
    /\ pc = "classify"
    /\ verdict' = Classify(features, thresholds)
    /\ pc' = "classified"
    /\ UNCHANGED <<features, varsBatch, varsCollect, tracks, varsGenres, varsPages,
                   varsCache>>

NextClassify == ClassifyRecord

SpecClassify == InitClassify /\ [][NextClassify]_vars

----------------------------------------------------------------------------
(* The batching loops: analyze_tracks with get_audio_features_batch        *)
(* (spotipy2.py) and the upload loop of create_flow_playlist (upload.py).  *)

\* range(start, stop, step) as a sequence
RECURSIVE PyRange(_, _, _)
PyRange(start, stop, step) ==
    IF start >= stop THEN <<>>
    ELSE <<start>> \o PyRange(start + step, stop, step)

\* s[a:b] for 0 <= a <= b: 0-based, b exclusive, cut at the end of s
SliceShort(s, a, b) == SubSeq(s, a + 1, Min(b - 1, Len(s)))
Slice(s, a, b) == SubSeq(s, a + 1, Min(b, Len(s)))

\* [track_ids[i:i + B] for i in range(0, len(track_ids), B)]
TrackBatches(ids, B) ==
    LET starts == PyRange(0, Len(ids), B)
    IN  [k \in 1..Len(starts) |-> Slice(ids, starts[k], starts[k] + B)]

\* the metadata analyze_tracks is handed for a track (collect_all_tracks built it)
MetadataOf(t) ==
    [name |-> <<"title", t>>, artists |-> <<"artist", t>>, playlists |-> <<"Mix">>]

\* the feature records the remote answers with in the batching model
FGood == [tempo |-> 150, loudness |-> -3, energy |-> 90, mode |-> 1]
FBad == [tempo |-> 120, loudness |-> -3, energy |-> 50, mode |-> 0]
AnalyzeFeatures == {FGood, FBad}

\* the rows when the falsy entries are taken out of features_batch before
\* the zip: the ids no longer line up with their features
RowsOfCompacted(batch, fb, md) ==
    LET good == SelectSeq(fb, LAMBDA f : f # None)
    IN  [k \in 1..Min(Len(batch), Len(good)) |->
            ResultRow(batch[k], md[batch[k]], good[k], thresholds)]
\* for track_id, features in zip(batch, features_batch): skip a falsy entry,
\* else append the row
RECURSIVE RowsOf(_, _, _)
RowsOf(batch, fb, md) ==
    IF Len(batch) = 0 \/ Len(fb) = 0 THEN <<>>
    ELSE (IF fb[1] = None THEN <<>>
          ELSE <<ResultRow(batch[1], md[batch[1]], fb[1], thresholds)>>)
         \o RowsOf(Tail(batch), Tail(fb), md)

Batches == TrackBatches(track_ids, batch_size)

\* the for loop's next step: the batch index after one iteration
NextBatch(k) == k + 1

\* the remote's log after one more call: the batch sent, how the call ended
\* and what it answered
LogRequest(outcome, response) ==
    Append(requests, [batch |-> bi, ids |-> Batches[bi],
                      outcome |-> outcome, response |-> response])

Init ==
    /\ pc = "batches"
    /\ script \in {"spotipy2", "upload"}
    /\ track_ids \in SeqsUpTo(AllTrackIds, MaxIds)
    \* collect_all_tracks returns list(all_track_ids): no id twice; the id
    \* column of the CSV upload.py reads may repeat an id
    /\ script = "spotipy2" => IsInjective(track_ids)
    \* create_flow_playlist exits before the loop when no row is left
    /\ script = "upload" => track_ids # <<>>
    /\ track_metadata =
         IF script = "spotipy2" THEN [t \in Range(track_ids) |-> MetadataOf(t)]
         ELSE <<>>
    \* 50 in SpotifyFlowAnalyzer.__init__, 100 in create_flow_playlist: drawn,
    \* so that lists of a few ids span several batches
    /\ batch_size \in 1..MaxBatch
    /\ bi = 1
    /\ results = <<>>
    /\ requests = <<>>
    /\ sleeps = 0
    /\ OthersIdleBatch

InLoop(s) == pc = "batches" /\ script = s /\ bi <= Len(Batches)

\* one iteration of the for loop: sp.audio_features answers with a list
\* aligned with the batch, an entry being a feature record or None
FetchOk ==
    /\ InLoop("spotipy2")
    /\ \E fb \in [1..Len(Batches[bi]) -> AnalyzeFeatures \cup {None}] :
         /\ results' = results \o RowsOf(Batches[bi], fb, track_metadata)
         /\ requests' = LogRequest("ok", fb)
    /\ bi' = NextBatch(bi)
    /\ UNCHANGED <<pc, script, track_ids, track_metadata, batch_size, sleeps>>

\* sp.audio_features answers None: `if not features_batch: continue`
FetchNothing ==
    /\ InLoop("spotipy2")
    /\ requests' = LogRequest("none", None)
    /\ bi' = NextBatch(bi)
    /\ UNCHANGED <<pc, script, track_ids, track_metadata, batch_size, results, sleeps>>

\* sp.audio_features raises: get_audio_features_batch catches Exception, logs,
\* sleeps 2 s and returns None, whatever the exception; analyze_tracks continues
FetchRaisesUncaught(kind) ==
    /\ InLoop("spotipy2")
    /\ requests' = LogRequest(kind, None)
    /\ pc' = "exit1"
    /\ UNCHANGED <<script, track_ids, track_metadata, batch_size, bi, results, sleeps>>
FetchRaises(kind) ==
    /\ InLoop("spotipy2")
    /\ requests' = LogRequest(kind, None)
    /\ sleeps' = sleeps + 1
    /\ bi' = NextBatch(bi)
    /\ UNCHANGED <<pc, script, track_ids, track_metadata, batch_size, results>>

\* a timeout, a rate limit, a transient 5xx
FetchRecoverable == FetchRaises("recoverable")

\* an authentication or authorization failure
FetchFatal == FetchRaises("fatal")

\* return pd.DataFrame(results)
AnalyzeReturn ==
    /\ pc = "batches" /\ script = "spotipy2" /\ bi > Len(Batches)
    /\ pc' = "done"
    /\ UNCHANGED <<varsBatch>>

\* upload.py: sp.playlist_add_items(playlist['id'], batch) returns
AddItemsOk ==
    /\ InLoop("upload")
    /\ requests' = LogRequest("ok", None)
    /\ bi' = NextBatch(bi)
    /\ UNCHANGED <<pc, script, track_ids, track_metadata, batch_size, results, sleeps>>

\* upload.py: sp.playlist_add_items raises: the except clause prints and
\* calls sys.exit(1)
AddItemsRaises ==
    /\ InLoop("upload")
    /\ requests' = LogRequest("error", None)
    /\ pc' = "exit1"
    /\ UNCHANGED <<script, track_ids, track_metadata, batch_size, bi, results, sleeps>>

\* upload.py: the loop is over; the summary and the report are written
UploadDone ==
    /\ pc = "batches" /\ script = "upload" /\ bi > Len(Batches)
    /\ pc' = "done"
    /\ UNCHANGED <<varsBatch>>

Next ==
    \/ (FetchOk
        /\ UNCHANGED <<varsClassify, varsCollect, tracks, varsGenres, varsPages, varsCache>>)
    \/ (FetchNothing
        /\ UNCHANGED <<varsClassify, varsCollect, tracks, varsGenres, varsPages, varsCache>>)
    \/ (FetchRecoverable
        /\ UNCHANGED <<varsClassify, varsCollect, tracks, varsGenres, varsPages, varsCache>>)
    \/ (FetchFatal
        /\ UNCHANGED <<varsClassify, varsCollect, tracks, varsGenres, varsPages, varsCache>>)
    \/ (AnalyzeReturn
        /\ UNCHANGED <<varsClassify, varsCollect, tracks, varsGenres, varsPages, varsCache>>)
    \/ (AddItemsOk
        /\ UNCHANGED <<varsClassify, varsCollect, tracks, varsGenres, varsPages, varsCache>>)
    \/ (AddItemsRaises
        /\ UNCHANGED <<varsClassify, varsCollect, tracks, varsGenres, varsPages, varsCache>>)
    \/ (UploadDone
        /\ UNCHANGED <<varsClassify, varsCollect, tracks, varsGenres, varsPages, varsCache>>)

Spec == Init /\ [][Next]_vars

----------------------------------------------------------------------------
(* collect_all_tracks (spotipy2.py).  A playlist id is a string, modelled  *)
(* as the sequence of its characters so that strip() is computed.          *)

\* Python's None in a slot that otherwise holds a string
NoneStr == "None"

\* str.strip(): leading and trailing blanks removed
RECURSIVE LStrip(_)
LStrip(str) == IF str # <<>> /\ str[1] = " " THEN LStrip(Tail(str)) ELSE str
RECURSIVE RStrip(_)
RStrip(str) ==
    IF str # <<>> /\ str[Len(str)] = " " THEN RStrip(SubSeq(str, 1, Len(str) - 1))
    ELSE str
Strip(str) == RStrip(LStrip(str))

\* the playlist ids the caller may hand over: two ids, one with a trailing
\* blank, and a blank line
PlaylistInputs == {<<"p", "1">>, <<"p", "2", " ">>, <<" ">>}

\* playlist_details['name'] as the remote answers for a playlist id
PlaylistName(pid) == IF pid = <<"p", "1">> THEN "Mix" ELSE "Chill"

\* the items sp.playlist_tracks may answer with: a missing track, a track
\* whose id is None or empty, and tracks t1 (under two names) and t2
Items ==
    {[track |-> None],
     [track |-> [id |-> NoneStr, name |-> "A", artists |-> <<"X">>]],
     [track |-> [id |-> "", name |-> "A", artists |-> <<"X">>]],
     [track |-> [id |-> "t1", name |-> "A", artists |-> <<"X">>]],
     [track |-> [id |-> "t1", name |-> "B", artists |-> <<"X", "Y">>]],
     [track |-> [id |-> "t2", name |-> "C", artists |-> <<"Y">>]]}

\* the test without its second half: `if item['track']`
ItemValidTrackOnly(item) == item.track # None
\* if item['track'] and item['track']['id']
ItemValid(item) ==
    /\ item.track # None
    /\ item.track.id # NoneStr
    /\ item.track.id # ""

\* the dict entry created for a track not seen before
NewMetadata(track) ==
    [name |-> track.name, artists |-> Join(", ", track.artists), playlists |-> <<>>]

\* track_metadata[track_id]['playlists'].append(playlist_info[playlist_id])
AddPlaylist(playlists, name) == Append(playlists, name)

\* the dict store without the `not in` test: a later occurrence rewrites
\* name and artists
StoreMetadataOverwrite(md, track) ==
    [t \in DOMAIN md \cup {track.id} |->
        IF t # track.id THEN md[t]
        ELSE IF t \in DOMAIN md
             THEN [NewMetadata(track) EXCEPT !.playlists = md[t].playlists]
             ELSE NewMetadata(track)]
\* `if track_id not in track_metadata: track_metadata[track_id] = {...}`
StoreMetadata(md, track) ==
    IF track.id \notin DOMAIN md
    THEN [t \in DOMAIN md \cup {track.id} |->
            IF t = track.id THEN NewMetadata(track) ELSE md[t]]
    ELSE md

\* the body of `for item in tracks` for one item; st holds all_track_ids,
\* track_metadata and the two histories; at is the loop index of the playlist
ProcessItem(st, item, name, at) ==
    IF ~ItemValid(item) THEN st
    ELSE LET track == item.track
             id == track.id
             md == StoreMetadata(st.md, track)
         IN  [ids |-> st.ids \cup {id},
              md |-> [md EXCEPT ![id].playlists = AddPlaylist(@, name)],
              appears |->
                 [t \in DOMAIN st.appears \cup {id} |->
                     (IF t \in DOMAIN st.appears THEN st.appears[t] ELSE {})
                     \cup (IF t = id THEN {at} ELSE {})],
              first_seen |->
                 IF id \in st.ids THEN st.first_seen ELSE Append(st.first_seen, id)]

\* `for item in tracks`, from the first item to the last
RECURSIVE ProcessItems(_, _, _, _)
ProcessItems(st, items, name, at) ==
    IF items = <<>> THEN st
    ELSE ProcessItems(ProcessItem(st, Head(items), name, at), Tail(items), name, at)

\* list(a_set) that loses an element
ListOfSetShort(S) ==
    {l \in [1..(Cardinality(S) - 1) -> S] : IsInjective(l)}
\* list(a_set): the elements in an order the caller does not choose
ListOfSet(S) == {l \in [1..Cardinality(S) -> S] : IsInjective(l)}

InitCollect ==
    /\ pc = "collect"
    /\ playlist_ids \in SeqsUpTo(PlaylistInputs, MaxPlaylists)
    /\ pi = 1
    /\ all_track_ids = {}
    /\ track_metadata = <<>>
    /\ playlist_info = <<>>
    /\ tracks = <<>>
    /\ appears = <<>>
    /\ first_seen = <<>>
    /\ item_no = 1
    /\ track_ids = <<>>
    /\ script = "spotipy2"
    /\ batch_size = 1 /\ bi = 1 /\ results = <<>> /\ requests = <<>> /\ sleeps = 0
    /\ ClassifyIdle
    /\ GenresIdle
    /\ PagesIdle
    /\ CacheIdle

InCollectLoop == pc = "collect" /\ pi <= Len(playlist_ids)

\* `if not playlist_id: continue`
SkipBlankPlaylist ==
    /\ InCollectLoop
    /\ Strip(playlist_ids[pi]) = <<>>
    /\ pi' = pi + 1
    /\ UNCHANGED <<pc, playlist_ids, all_track_ids, playlist_info, appears,
                   first_seen, item_no, tracks, varsBatch, varsClassify>>

\* sp.playlist raises: the except clause logs and continues with the next
\* playlist, whatever the exception
PlaylistRaises(kind) ==
    /\ InCollectLoop
    /\ Strip(playlist_ids[pi]) # <<>>
    /\ kind \in {"recoverable", "fatal"}
    /\ pi' = pi + 1
    /\ UNCHANGED <<pc, playlist_ids, all_track_ids, playlist_info, appears,
                   first_seen, item_no, tracks, varsClassify, varsBatch>>

PlaylistRecoverable == PlaylistRaises("recoverable")

PlaylistFatal == PlaylistRaises("fatal")

\* one iteration of `for playlist_id in playlist_ids` that reads the
\* playlist: its name, its items (get_playlist_tracks), then the item loop
ProcessPlaylist ==
    /\ InCollectLoop
    /\ Strip(playlist_ids[pi]) # <<>>
    /\ \E items \in SeqsUpTo(Items, MaxItems) :
         LET pid == Strip(playlist_ids[pi])
             name == PlaylistName(pid)
             st == ProcessItems([ids |-> all_track_ids, md |-> track_metadata,
                                 appears |-> appears, first_seen |-> first_seen],
                                items, name, pi)
         IN  /\ playlist_info' =
                   [q \in DOMAIN playlist_info \cup {pid} |->
                       IF q = pid THEN name ELSE playlist_info[q]]
             /\ all_track_ids' = st.ids
             /\ track_metadata' = st.md
             /\ appears' = st.appears
             /\ first_seen' = st.first_seen
    /\ pi' = pi + 1
    /\ UNCHANGED <<pc, playlist_ids, item_no, tracks, varsClassify, script,
                   track_ids, batch_size, bi, results, requests, sleeps>>

\* after the loop: `return [], {}` when no id was seen, else
\* `return list(all_track_ids), track_metadata`
CollectReturn ==
    /\ pc = "collect" /\ pi > Len(playlist_ids)
    /\ IF Cardinality(all_track_ids) = 0
       THEN track_ids' = <<>> /\ track_metadata' = <<>>
       ELSE track_ids' \in ListOfSet(all_track_ids) /\ UNCHANGED track_metadata
    /\ pc' = "collected"
    /\ UNCHANGED <<varsCollect, tracks, varsClassify, script, batch_size, bi,
                   results, requests, sleeps>>

NextCollect ==
    \/ (SkipBlankPlaylist /\ UNCHANGED <<varsGenres, varsPages, varsCache>>)
    \/ (PlaylistRecoverable /\ UNCHANGED <<varsGenres, varsPages, varsCache>>)
    \/ (PlaylistFatal /\ UNCHANGED <<varsGenres, varsPages, varsCache>>)
    \/ (ProcessPlaylist /\ UNCHANGED <<varsGenres, varsPages, varsCache>>)
    \/ (CollectReturn /\ UNCHANGED <<varsGenres, varsPages, varsCache>>)

SpecCollect == InitCollect /\ [][NextCollect]_vars

----------------------------------------------------------------------------
(* The item loop of collect_all_tracks (`for item in tracks`), one item a  *)
(* step: the playlist under the loop is the last of playlist_ids, and the  *)
(* playlists before it have been aggregated.                               *)

\* all_track_ids, track_metadata and the histories before any playlist
NothingCollected == [ids |-> {}, md |-> <<>>, appears |-> <<>>, first_seen |-> <<>>]

InitItems ==
    /\ pc = "items"
    /\ playlist_ids \in
         {<<<<"p", "1">>>>, <<<<"p", "1">>, <<"p", "2", " ">>>>,
          <<<<"p", "1">>, <<"p", "1">>>>}
    /\ pi = Len(playlist_ids)
    /\ playlist_info =
         [q \in {Strip(playlist_ids[k]) : k \in 1..pi} |-> PlaylistName(q)]
    /\ \E prior \in SeqsUpTo(Items, MaxPrior) :
         LET st == IF pi = 1 THEN NothingCollected
                   ELSE ProcessItems(NothingCollected, prior,
                                     PlaylistName(Strip(playlist_ids[1])), 1)
         IN  /\ all_track_ids = st.ids
             /\ track_metadata = st.md
             /\ appears = st.appears
             /\ first_seen = st.first_seen
    /\ tracks \in SeqsUpTo(Items, MaxItems)
    /\ item_no = 1
    /\ track_ids = <<>>
    /\ script = "spotipy2"
    /\ batch_size = 1 /\ bi = 1 /\ results = <<>> /\ requests = <<>> /\ sleeps = 0
    /\ ClassifyIdle
    /\ GenresIdle
    /\ PagesIdle
    /\ CacheIdle

\* the body of `for item in tracks` for the item the loop is at
ItemStep ==
    /\ pc = "items"
    /\ item_no <= Len(tracks)
    /\ LET st == ProcessItem([ids |-> all_track_ids, md |-> track_metadata,
                              appears |-> appears, first_seen |-> first_seen],
                             tracks[item_no],
                             playlist_info[Strip(playlist_ids[pi])], pi)
       IN  /\ all_track_ids' = st.ids
           /\ track_metadata' = st.md
           /\ appears' = st.appears
           /\ first_seen' = st.first_seen
    /\ item_no' = item_no + 1
    /\ UNCHANGED <<pc, playlist_ids, pi, playlist_info, tracks, varsClassify,
                   script, track_ids, batch_size, bi, results, requests, sleeps>>

\* the loop is through the list
ItemsEnd ==
    /\ pc = "items"
    /\ item_no > Len(tracks)
    /\ pc' = "items_done"
    /\ UNCHANGED <<varsBatch, varsCollect, tracks, varsClassify>>

NextItems ==
    \/ (ItemStep /\ UNCHANGED <<varsGenres, varsPages, varsCache>>)
    \/ (ItemsEnd /\ UNCHANGED <<varsGenres, varsPages, varsCache>>)

SpecItems == InitItems /\ [][NextItems]_vars

----------------------------------------------------------------------------
(* get_playlist_tracks (spotipy2.py).  The items of the playlist are       *)
(* numbered by their position on the remote, so that a page skipped or     *)
(* fetched twice shows in the list built.                                  *)

\* results['items'] for a request at an offset: items[offset:offset+limit]
Page(items, off, lim) == SubSeq(items, off + 1, Min(off + lim, Len(items)))

InitPages ==
    /\ pc = "request"
    /\ \E n \in 0..MaxRemote : remote = [k \in 1..n |-> k]
    \* 100 in the code: drawn, so that a playlist of a few items spans
    \* several pages
    /\ limit \in 1..MaxLimit
    /\ offset = 0
    /\ tracks = <<>>
    /\ BatchIdle /\ ClassifyIdle /\ CollectIdle /\ GenresIdle /\ CacheIdle

\* sp.playlist_tracks answers with a page that holds items
PageOk ==
    /\ pc = "request"
    /\ Page(remote, offset, limit) # <<>>
    /\ tracks' = tracks \o Page(remote, offset, limit)
    /\ offset' = offset + limit
    /\ pc' = IF Len(Page(remote, offset, limit)) < limit THEN "returned" ELSE "request"
    /\ UNCHANGED <<remote, limit>>

\* sp.playlist_tracks answers with no item: `if not results['items']: break`
PageEmpty ==
    /\ pc = "request"
    /\ Page(remote, offset, limit) = <<>>
    /\ pc' = "returned"
    /\ UNCHANGED <<remote, limit, offset, tracks>>

\* sp.playlist_tracks raises: the except clause logs and sleeps
PageRaises ==
    /\ pc = "request"
    /\ pc' = "sleep"
    /\ UNCHANGED <<remote, limit, offset, tracks>>

\* time.sleep(2) returns: `continue`, the same request is made again
SleepOver ==
    /\ pc = "sleep"
    /\ pc' = "request"
    /\ UNCHANGED <<remote, limit, offset, tracks>>

NextPages ==
    \/ (PageOk /\ UNCHANGED <<varsBatch, varsClassify, varsCollect, varsGenres, varsCache>>)
    \/ (PageEmpty /\ UNCHANGED <<varsBatch, varsClassify, varsCollect, varsGenres, varsCache>>)
    \/ (PageRaises /\ UNCHANGED <<varsBatch, varsClassify, varsCollect, varsGenres, varsCache>>)
    \/ (SleepOver /\ UNCHANGED <<varsBatch, varsClassify, varsCollect, varsGenres, varsCache>>)

\* the loop is sequential code: while it has a next step it takes it; whether
\* a request succeeds is the remote's choice and is under no fairness
SpecPages == InitPages /\ [][NextPages]_vars /\ WF_vars(NextPages)

----------------------------------------------------------------------------
(* SpotifyGenreOrganizer.get_artist_genres (genre-split.py): each step is  *)
(* one call, for an artist id the caller chooses.                          *)

Artists == {"a1", "a2"}

\* artist_info['genres'] as the remote may answer
GenreLists == {<<>>, <<"rock">>, <<"pop", "rock">>}

\* a dict with one key set
DictSet(d, key, value) ==
    [q \in DOMAIN d \cup {key} |-> IF q = key THEN value ELSE d[q]]

\* the log of sp.artist calls after one more call
LogLookup(artist, outcome, genres) ==
    Append(calls, [artist |-> artist, outcome |-> outcome, genres |-> genres])

InitCache ==
    /\ pc = "organizer"
    /\ genre_cache = <<>>
    /\ artist_id = ""
    /\ returned = <<>>
    /\ calls = <<>>
    /\ tracks = <<>>
    /\ BatchIdle /\ ClassifyIdle /\ CollectIdle /\ GenresIdle /\ PagesIdle

\* `if artist_id in self.genre_cache: return self.genre_cache[artist_id]`
CacheHit ==
    \E a \in Artists :
        /\ a \in DOMAIN genre_cache
        /\ artist_id' = a
        /\ returned' = genre_cache[a]
        /\ UNCHANGED <<genre_cache, calls>>

\* the artist is not cached and sp.artist answers: the genres are stored
\* and returned
LookupOk ==
    \E a \in Artists, genres \in GenreLists :
        /\ a \notin DOMAIN genre_cache
        /\ Len(calls) < MaxLookups
        /\ artist_id' = a
        /\ calls' = LogLookup(a, "ok", genres)
        /\ genre_cache' = DictSet(genre_cache, a, genres)
        /\ returned' = genres

\* the artist is not cached and sp.artist raises, and the cache is written
\* all the same
LookupFailsCaching ==
    \E a \in Artists :
        /\ a \notin DOMAIN genre_cache
        /\ Len(calls) < MaxLookups
        /\ artist_id' = a
        /\ calls' = LogLookup(a, "error", <<>>)
        /\ genre_cache' = DictSet(genre_cache, a, <<>>)
        /\ returned' = <<>>

\* the artist is not cached and sp.artist raises: `except Exception:` prints
\* and returns []
LookupFails ==
    \E a \in Artists :
        /\ a \notin DOMAIN genre_cache
        /\ Len(calls) < MaxLookups
        /\ artist_id' = a
        /\ calls' = LogLookup(a, "error", <<>>)
        /\ returned' = <<>>
        /\ UNCHANGED genre_cache

NextCache ==
    \/ (CacheHit /\ UNCHANGED <<pc, varsBatch, varsClassify, varsCollect, tracks, varsGenres, varsPages>>)
    \/ (LookupOk /\ UNCHANGED <<pc, varsBatch, varsClassify, varsCollect, tracks, varsGenres, varsPages>>)
    \/ (LookupFails /\ UNCHANGED <<pc, varsBatch, varsClassify, varsCollect, tracks, varsGenres, varsPages>>)

SpecCache == InitCache /\ [][NextCache]_vars

----------------------------------------------------------------------------
(* GenreConsolidator (consolidated_genres.py).  A subgenre label is a      *)
(* string, modelled as the sequence of its characters so that lower() is   *)
(* computed.                                                               *)

\* str.lower() on the letters
UpperToLower ==
    [c \in {"A", "B", "C", "D", "E", "F", "G", "H", "I", "J", "K", "L", "M",
            "N", "O", "P", "Q", "R", "S", "T", "U", "V", "W", "X", "Y", "Z"} |->
        CASE c = "A" -> "a" [] c = "B" -> "b" [] c = "C" -> "c" [] c = "D" -> "d"
          [] c = "E" -> "e" [] c = "F" -> "f" [] c = "G" -> "g" [] c = "H" -> "h"
          [] c = "I" -> "i" [] c = "J" -> "j" [] c = "K" -> "k" [] c = "L" -> "l"
          [] c = "M" -> "m" [] c = "N" -> "n" [] c = "O" -> "o" [] c = "P" -> "p"
          [] c = "Q" -> "q" [] c = "R" -> "r" [] c = "S" -> "s" [] c = "T" -> "t"
          [] c = "U" -> "u" [] c = "V" -> "v" [] c = "W" -> "w" [] c = "X" -> "x"
          [] c = "Y" -> "y" [] c = "Z" -> "z"]

LowerChar(c) == IF c \in DOMAIN UpperToLower THEN UpperToLower[c] ELSE c

Lower(str) == [k \in DOMAIN str |-> LowerChar(str[k])]

\* subgenre strings
edm == <<"e", "d", "m">>
trance == <<"t", "r", "a", "n", "c", "e">>
ska == <<"s", "k", "a">>
emo == <<"e", "m", "o">>
anime == <<"a", "n", "i", "m", "e">>
jazz == <<"j", "a", "z", "z">>
EDM == <<"E", "D", "M">>
Ska == <<"S", "k", "a">>

\* self.genre_mappings as __init__ sets it, a few subgenres of each category
\* kept; the categories in dict order
CodeTaxonomy ==
    <<[name |-> "ELECTRONIC", subgenres |-> {edm, trance}],
      [name |-> "ROCK_METAL", subgenres |-> {ska, emo}],
      [name |-> "JAPANESE_ANIME", subgenres |-> {anime}]>>

\* the same with 'edm' listed under ROCK_METAL too
OverlappingTaxonomy ==
    <<[name |-> "ELECTRONIC", subgenres |-> {edm, trance}],
      [name |-> "ROCK_METAL", subgenres |-> {ska, emo, edm}],
      [name |-> "JAPANESE_ANIME", subgenres |-> {anime}]>>

\* genre_mappings is an attribute the methods read on every call; the model
\* draws it, so that a subgenre found in two categories is covered
Taxonomies == {CodeTaxonomy, OverlappingTaxonomy}

\* the keys of main_genre_tracks, in dict order
MainGenres == <<"ELECTRONIC", "ROCK_METAL", "JAPANESE_ANIME", "OTHER">>

\* the keys genre_data may hold
Labels == {EDM, edm, Ska, jazz}

\* the track records genre_data may list: tA under two names, and tB
TrackRecs ==
    {[id |-> "tA", name |-> "n1"], [id |-> "tA", name |-> "n2"],
     [id |-> "tB", name |-> "n1"]}

\* `for main_genre, subgenres in self.genre_mappings.items()` from entry k on:
\* the first category whose set holds the label, "OTHER" after the last
RECURSIVE FirstMatch(_, _, _)
FirstMatch(mappings, k, label) ==
    IF k > Len(mappings) THEN "OTHER"
    ELSE IF label \in mappings[k].subgenres THEN mappings[k].name
    ELSE FirstMatch(mappings, k + 1, label)

\* get_main_genre
GetMainGenreNoLower(mappings, label) == FirstMatch(mappings, 1, label)
GetMainGenre(mappings, label) == FirstMatch(mappings, 1, Lower(label))

\* `track['id'] not in seen_tracks[main_genre]`, negated
SeenInAnyGenre(seen, genre, id) == \E g \in DOMAIN seen : id \in seen[g]
SeenInGenre(seen, genre, id) == id \in seen[genre]

\* the body of `for track in tracks` for one track; st holds
\* main_genre_tracks (mgt) and seen_tracks (seen)
AdmitTrackAlways(st, genre, track) ==
    [mgt |-> [st.mgt EXCEPT ![genre] = Append(@, track)],
     seen |-> [st.seen EXCEPT ![genre] = @ \cup {track.id}]]
AdmitTrack(st, genre, track) ==
    IF SeenInGenre(st.seen, genre, track.id) THEN st
    ELSE [mgt |-> [st.mgt EXCEPT ![genre] = Append(@, track)],
          seen |-> [st.seen EXCEPT ![genre] = @ \cup {track.id}]]

\* `for track in tracks`, from the first track to the last
RECURSIVE AdmitTracks(_, _, _)
AdmitTracks(st, genre, trs) ==
    IF trs = <<>> THEN st
    ELSE AdmitTracks(AdmitTrack(st, genre, Head(trs)), genre, Tail(trs))

\* genre.lower() for the keys of main_genre_tracks
LowerName(genre) ==
    CASE genre = "ELECTRONIC" -> "electronic"
      [] genre = "ROCK_METAL" -> "rock_metal"
      [] genre = "JAPANESE_ANIME" -> "japanese_anime"
      [] genre = "OTHER" -> "other"

\* "Save consolidated CSVs" without the `if tracks:` test
CsvFilesAll(mgt) ==
    {[file |-> <<LowerName(MainGenres[k]), "_tracks.csv">>, rows |-> mgt[MainGenres[k]]] :
        k \in DOMAIN MainGenres}
\* "Save consolidated CSVs": one file for each category with tracks
CsvFiles(mgt) ==
    {[file |-> <<LowerName(MainGenres[k]), "_tracks.csv">>, rows |-> mgt[MainGenres[k]]] :
        k \in {j \in DOMAIN MainGenres : mgt[MainGenres[j]] # <<>>}}

\* a subsequence by a test on the elements, order kept
RECURSIVE SelectNonEmpty(_, _)
SelectNonEmpty(gs, mgt) ==
    IF gs = <<>> THEN <<>>
    ELSE (IF mgt[Head(gs)] # <<>> THEN <<Head(gs)>> ELSE <<>>)
         \o SelectNonEmpty(Tail(gs), mgt)

\* consolidation_report.txt: a count line for every category, then a line
\* for each file created
ReportLines(mgt) ==
    [k \in DOMAIN MainGenres |->
        [line |-> "count", genre |-> MainGenres[k], tracks |-> Len(mgt[MainGenres[k]])]]
    \o [k \in DOMAIN SelectNonEmpty(MainGenres, mgt) |->
        [line |-> "file",
         file |-> <<LowerName(SelectNonEmpty(MainGenres, mgt)[k]), "_tracks.csv">>]]

InitGenres ==
    /\ pc = "constructed"
    /\ genre_mappings \in Taxonomies
    /\ keys_done = {}
    /\ subgenre = <<>>
    /\ main_genre = ""
    /\ main_genre_tracks = <<>>
    /\ seen_tracks = <<>>
    /\ listed = {}
    /\ files = {}
    /\ report = <<>>
    /\ tracks = <<>>
    /\ BatchIdle /\ ClassifyIdle /\ CollectIdle /\ PagesIdle /\ CacheIdle

\* consolidate_genres up to the loop: genre_data is loaded, main_genre_tracks
\* and seen_tracks are created empty
ConsolidateBegin ==
    /\ pc = "constructed"
    /\ main_genre_tracks' = [g \in Range(MainGenres) |-> <<>>]
    /\ seen_tracks' = [g \in Range(MainGenres) |-> {}]
    /\ pc' = "consolidate"
    /\ UNCHANGED <<genre_mappings, keys_done, subgenre, main_genre, listed,
                   files, report, tracks>>

\* one iteration of `for subgenre, tracks in genre_data.items()`; the items
\* of genre_data are drawn as the loop reaches them, no key twice
ConsolidateGenre ==
    /\ pc = "consolidate"
    /\ Cardinality(keys_done) < MaxGenres
    /\ \E key \in Labels \ keys_done, trs \in SeqsUpTo(TrackRecs, MaxTracksPerGenre) :
         LET genre == GetMainGenre(genre_mappings, key)
             st == AdmitTracks([mgt |-> main_genre_tracks, seen |-> seen_tracks],
                               genre, trs)
         IN  /\ subgenre' = key
             /\ tracks' = trs
             /\ main_genre' = genre
             /\ main_genre_tracks' = st.mgt
             /\ seen_tracks' = st.seen
             /\ keys_done' = keys_done \cup {key}
             /\ listed' = listed \cup {<<key, trs[k].id>> : k \in DOMAIN trs}
    /\ UNCHANGED <<pc, genre_mappings, files, report>>

\* after the loop: the CSV files and the report are written
SaveOutputs ==
    /\ pc = "consolidate"
    /\ files' = CsvFiles(main_genre_tracks)
    /\ report' = ReportLines(main_genre_tracks)
    /\ pc' = "done"
    /\ UNCHANGED <<genre_mappings, keys_done, subgenre, main_genre,
                   main_genre_tracks, seen_tracks, listed, tracks>>

NextGenres ==
    \/ (ConsolidateBegin /\ UNCHANGED <<varsBatch, varsClassify, varsCollect, varsPages, varsCache>>)
    \/ (ConsolidateGenre /\ UNCHANGED <<varsBatch, varsClassify, varsCollect, varsPages, varsCache>>)
    \/ (SaveOutputs /\ UNCHANGED <<varsBatch, varsClassify, varsCollect, varsPages, varsCache>>)

SpecGenres == InitGenres /\ [][NextGenres]_vars

----------------------------------------------------------------------------
(* Claims about the batching loops, checked under Spec. *)

Ceil(n, b) == (n + b - 1) \div b

\* the ids of the first k requests, in call order
RECURSIVE RequestedIds(_)
RequestedIds(k) ==
    IF k = 0 THEN <<>> ELSE RequestedIds(k - 1) \o requests[k].ids

\* number of calls made for batch b
Attempts(b) == Cardinality({k \in DOMAIN requests : requests[k].batch = b})

Raised(k) == requests[k].outcome \in {"recoverable", "fatal"}

\* C2: every batch requested holds between 1 and batch_size ids; the requests
\* made so far, put end to end, are the first ids of the input list in input
\* order (contiguous slices, nothing left out, nothing sent twice); and when
\* analyze_tracks returns (or the upload loop of upload.py ends normally)
\* exactly ceil(N / B) requests were made and they hold the whole list.
C2_BatchCoverage ==
    script \in {"spotipy2", "upload"} =>
        /\ \A k \in DOMAIN requests :
              Len(requests[k].ids) >= 1 /\ Len(requests[k].ids) <= batch_size
        /\ LET sent == RequestedIds(Len(requests))
           IN  /\ Len(sent) <= Len(track_ids)
               /\ sent = SubSeq(track_ids, 1, Len(sent))
        /\ pc = "done" =>
              /\ Len(requests) = Ceil(Len(track_ids), batch_size)
              /\ RequestedIds(Len(requests)) = track_ids

\* C2 witness: three ids in batches of two: analyze_tracks returned after two
\* requests, the first of which failed
C2_Witness ==
    /\ script = "spotipy2" /\ pc = "done"
    /\ Len(track_ids) = 3 /\ batch_size = 2
    /\ Len(requests) = 2
    /\ requests[1].outcome = "recoverable"
    /\ Len(requests[2].ids) = 1

C4_FatalAborts ==
    script = "spotipy2" =>
        \A k \in DOMAIN requests :
            requests[k].outcome = "fatal" => (k = Len(requests) /\ pc # "done")

----------------------------------------------------------------------------
(* Claims about the classification block, checked under SpecClassify. *)

Classified == pc = "classified"

\* the four predicates of the rubric, written as the rubric states them
TempoInRange(f) == f.tempo >= thresholds.min_tempo /\ f.tempo <= thresholds.max_tempo
LoudnessInRange(f) ==
    f.loudness >= thresholds.min_loudness /\ f.loudness <= thresholds.max_loudness
EnergyEnough(f) == f.energy >= thresholds.min_energy
ModeRequired(f) == f.mode = thresholds.mode

\* number of entries of a reasons list that name a dimension
CountDim(reasons, d) == Cardinality({k \in DOMAIN reasons : reasons[k].dim = d})

DimRank(d) ==
    CASE d = "Tempo" -> 1 [] d = "Loudness" -> 2 [] d = "Energy" -> 3
      [] d = "Minor mode" -> 4

\* C5: meets_criteria is true exactly when the four predicates hold, and the
\* reasons list is empty exactly when meets_criteria is true.
C5_MeetsIffAllFour ==
    Classified =>
        /\ verdict.meets_criteria <=>
              (TempoInRange(features) /\ LoudnessInRange(features)
               /\ EnergyEnough(features) /\ ModeRequired(features))
        /\ (verdict.reasons = <<>>) <=> verdict.meets_criteria

\* C5 witness: a record that passes all four, with no reason
C5_Witness ==
    /\ Classified
    /\ features = [tempo |-> 141, loudness |-> -1, energy |-> 86, mode |-> 1]
    /\ verdict.meets_criteria /\ verdict.reasons = <<>>

\* C6: the reasons list holds one entry for each violated dimension and none
\* for a satisfied one, in the order tempo, loudness, energy, mode, the
\* numeric entries carrying the offending value.
C6_ReasonsCompleteOrdered ==
    Classified =>
        LET rs == verdict.reasons
        IN  /\ CountDim(rs, "Tempo") = (IF TempoInRange(features) THEN 0 ELSE 1)
            /\ CountDim(rs, "Loudness") = (IF LoudnessInRange(features) THEN 0 ELSE 1)
            /\ CountDim(rs, "Energy") = (IF EnergyEnough(features) THEN 0 ELSE 1)
            /\ CountDim(rs, "Minor mode") = (IF ModeRequired(features) THEN 0 ELSE 1)
            /\ \A a, b \in DOMAIN rs : a < b => DimRank(rs[a].dim) < DimRank(rs[b].dim)
            /\ \A a \in DOMAIN rs :
                  /\ rs[a].dim = "Tempo" => rs[a].value = features.tempo
                  /\ rs[a].dim = "Loudness" => rs[a].value = features.loudness
                  /\ rs[a].dim = "Energy" => rs[a].value = features.energy

\* C6 witness: a record failing tempo, energy and mode but not loudness
C6_Witness ==
    /\ Classified
    /\ features = [tempo |-> 139, loudness |-> -7, energy |-> 84, mode |-> 0]
    /\ Len(verdict.reasons) = 3
    /\ verdict.reasons[1].dim = "Tempo"
    /\ verdict.reasons[2].dim = "Energy"
    /\ verdict.reasons[3].dim = "Minor mode"

\* C7: the bounds are inclusive: a tempo equal to min_tempo or max_tempo, a
\* loudness equal to min_loudness or max_loudness, an energy equal to
\* min_energy pass their dimension; a tempo one below min_tempo or one above
\* max_tempo fails it and has a tempo reason.
C7_InclusiveBounds ==
    Classified =>
        LET rs == verdict.reasons
        IN  /\ features.tempo \in {thresholds.min_tempo, thresholds.max_tempo}
                  => CountDim(rs, "Tempo") = 0
            /\ features.loudness \in {thresholds.min_loudness, thresholds.max_loudness}
                  => CountDim(rs, "Loudness") = 0
            /\ features.energy = thresholds.min_energy => CountDim(rs, "Energy") = 0
            /\ (features.tempo \in {thresholds.min_tempo, thresholds.max_tempo}
                /\ features.loudness \in {thresholds.min_loudness, thresholds.max_loudness}
                /\ features.energy = thresholds.min_energy
                /\ features.mode = thresholds.mode) => verdict.meets_criteria
            /\ features.tempo \in {thresholds.min_tempo - 1, thresholds.max_tempo + 1}
                  => (CountDim(rs, "Tempo") = 1 /\ ~verdict.meets_criteria)

\* C7 witness: every value on its bound, and the record passes
C7_Witness ==
    /\ Classified
    /\ features.tempo = thresholds.max_tempo
    /\ features.loudness = thresholds.min_loudness
    /\ features.energy = thresholds.min_energy
    /\ verdict.meets_criteria

----------------------------------------------------------------------------
(* Claims about collect_all_tracks, checked under SpecCollect. *)

\* C1: when collect_all_tracks returns, the metadata store holds one entry
\* for each track id seen, and the entry of a track id that k of the
\* processed playlists list records exactly k sources.
C1_OneEntryKSources ==
    pc = "collected" =>
        /\ DOMAIN track_metadata = all_track_ids
        /\ \A id \in DOMAIN track_metadata :
              Len(track_metadata[id].playlists) = Cardinality(appears[id])

----------------------------------------------------------------------------
(* Claims about GenreConsolidator, checked under SpecGenres. *)

Consolidating == pc \in {"consolidate", "done"}

\* the ids of the records of a bucket
BucketIds(g) == {main_genre_tracks[g][k].id : k \in DOMAIN main_genre_tracks[g]}

GenreTrackIds == {r.id : r \in TrackRecs}

\* the categories whose subgenre set holds the lower-cased label
CategoriesHolding(mappings, label) ==
    {k \in DOMAIN mappings : Lower(label) \in mappings[k].subgenres}

\* the category a label belongs to: the first one holding it, else "OTHER"
ExpectedGenre(mappings, label) ==
    LET hits == CategoriesHolding(mappings, label)
    IN  IF hits = {} THEN "OTHER"
        ELSE mappings[CHOOSE k \in hits : \A j \in hits : k <= j].name

\* C8 as stated: a track id is in at most one category bucket.
C8_AtMostOneBucket ==
    Consolidating =>
        \A id \in GenreTrackIds :
            Cardinality({g \in Range(MainGenres) : id \in BucketIds(g)}) <= 1

\* C8 amended: a track id is in the bucket of a category exactly when a key
\* read so far lists it and maps to that category; so it is in one bucket
\* when all its subgenres map to one category and in several when they map
\* to different ones.
C8_InEveryMappedBucket ==
    Consolidating =>
        \A g \in Range(MainGenres), id \in GenreTrackIds :
            id \in BucketIds(g)
            <=> \E key \in Labels :
                   /\ <<key, id>> \in listed
                   /\ ExpectedGenre(genre_mappings, key) = g

\* C8 witness: tA, listed under an ELECTRONIC and a ROCK_METAL subgenre, is
\* in both buckets
C8_Witness ==
    /\ pc = "done"
    /\ <<EDM, "tA">> \in listed /\ <<Ska, "tA">> \in listed
    /\ "tA" \in BucketIds("ELECTRONIC")
    /\ "tA" \in BucketIds("ROCK_METAL")

\* the first record of a list with a given id
FirstWithId(trs, id) ==
    trs[CHOOSE k \in DOMAIN trs :
            trs[k].id = id /\ \A j \in DOMAIN trs : trs[j].id = id => k <= j]

\* C9: no bucket holds a track id twice, and an iteration of the loop only
\* appends to a bucket: the records stored stay as they are, a record is
\* appended only if its id was not in the bucket, and it is the first record
\* with that id of the list read.
C9_FirstOccurrenceWins ==
    /\ [](Consolidating =>
            \A g \in Range(MainGenres) :
                /\ IsInjective([k \in DOMAIN main_genre_tracks[g] |->
                                    main_genre_tracks[g][k].id])
                /\ seen_tracks[g] = BucketIds(g))
    /\ [][(pc = "consolidate" /\ pc' = "consolidate") =>
            \A g \in Range(MainGenres) :
                LET old == main_genre_tracks[g]
                    new == main_genre_tracks'[g]
                IN  /\ Len(old) <= Len(new)
                    /\ SubSeq(new, 1, Len(old)) = old
                    /\ \A k \in (Len(old) + 1)..Len(new) :
                          /\ new[k].id \notin seen_tracks[g]
                          /\ new[k] = FirstWithId(tracks', new[k].id)]_vars

\* C9 witness: tA was listed under two ELECTRONIC subgenres, the second time
\* with another record; the bucket holds the first record only
C9_Witness ==
    /\ pc = "consolidate"
    /\ <<EDM, "tA">> \in listed /\ <<edm, "tA">> \in listed
    /\ tracks = <<[id |-> "tA", name |-> "n2"]>>
    /\ main_genre_tracks["ELECTRONIC"] = <<[id |-> "tA", name |-> "n1"]>>

\* C10: the category of the key read last is the first category of the
\* taxonomy whose set holds the lower-cased key, and "OTHER" exactly when no
\* set holds it; every track listed under the key is in that category's
\* bucket, and a bucket holds a track only if a key of that category lists it.
C10_RoutedToMainGenre ==
    (Consolidating /\ keys_done # {}) =>
        /\ main_genre = ExpectedGenre(genre_mappings, subgenre)
        /\ main_genre = "OTHER" <=> CategoriesHolding(genre_mappings, subgenre) = {}
        /\ \A k \in DOMAIN tracks : tracks[k].id \in BucketIds(main_genre)
        /\ \A g \in Range(MainGenres) : \A id \in BucketIds(g) :
              \E key \in keys_done :
                 <<key, id>> \in listed /\ ExpectedGenre(genre_mappings, key) = g

\* C10 witness: "EDM", whose lower-cased form two categories hold, went to
\* the first of them with its tracks
C10_Witness ==
    /\ pc = "consolidate"
    /\ genre_mappings = OverlappingTaxonomy
    /\ subgenre = EDM
    /\ Cardinality(CategoriesHolding(genre_mappings, subgenre)) = 2
    /\ main_genre = "ELECTRONIC"
    /\ Len(tracks) = 2
    /\ BucketIds("ELECTRONIC") = {"tA", "tB"}
    /\ BucketIds("ROCK_METAL") = {}

\* the name of the CSV file of a category
CsvName(g) == <<LowerName(g), "_tracks.csv">>

\* the report lines of one kind
CountLines(g) == {k \in DOMAIN report : report[k].line = "count" /\ report[k].genre = g}
FileLines(g) == {k \in DOMAIN report : report[k].line = "file" /\ report[k].file = CsvName(g)}

\* C11 as stated: a category without tracks has no CSV file and no entry in
\* the report, and a category with tracks has both.
C11_EmptyCategoryAbsent ==
    pc = "done" =>
        \A g \in Range(MainGenres) :
            IF main_genre_tracks[g] = <<>>
            THEN /\ ~\E f \in files : f.file = CsvName(g)
                 /\ CountLines(g) = {} /\ FileLines(g) = {}
            ELSE /\ \E f \in files : f.file = CsvName(g)
                 /\ CountLines(g) # {}

\* C11 amended: a category has a CSV file, holding its bucket, and a line
\* under "Files created" exactly when it received a track; the report
\* carries one count line for every category, the count being 0 for a
\* category without tracks.
C11_EmptyCategoryHasNoFile ==
    pc = "done" =>
        \A g \in Range(MainGenres) :
            /\ main_genre_tracks[g] # <<>>
               <=> \E f \in files : f.file = CsvName(g)
            /\ \A f \in files : f.file = CsvName(g) => f.rows = main_genre_tracks[g]
            /\ Cardinality(FileLines(g)) = (IF main_genre_tracks[g] # <<>> THEN 1 ELSE 0)
            /\ Cardinality(CountLines(g)) = 1
            /\ \A k \in CountLines(g) : report[k].tracks = Len(main_genre_tracks[g])

\* C11 witness: ELECTRONIC received a track and OTHER none; one file was
\* written, and the report counts 0 tracks for OTHER
C11_Witness ==
    /\ pc = "done"
    /\ main_genre_tracks["ELECTRONIC"] # <<>>
    /\ main_genre_tracks["OTHER"] = <<>>
    /\ {f.file : f \in files} = {CsvName("ELECTRONIC")}
    /\ \E k \in DOMAIN report :
          report[k] = [line |-> "count", genre |-> "OTHER", tracks |-> 0]

----------------------------------------------------------------------------
(* Further claims about collect_all_tracks, checked under SpecCollect. *)

\* the position of an id in a list without repetitions
IndexOf(l, id) == CHOOSE k \in DOMAIN l : l[k] = id

\* C12: the list returned holds the ids in first-seen order: of two returned
\* ids, the one whose first occurrence in the processed playlists is earlier
\* comes earlier in the list.
C12_FirstSeenOrder ==
    pc = "collected" =>
        \A a \in Range(track_ids), b \in Range(track_ids) :
            IndexOf(first_seen, a) < IndexOf(first_seen, b)
            => IndexOf(track_ids, a) < IndexOf(track_ids, b)

\* the item the loop processes in a step that starts in this state
ItemAtHand == tracks[item_no]

\* C13: first writer wins.  A step of the item loop leaves name and artists
\* of every entry as they are and only extends its source list; an entry
\* that appears in the step carries name and artists of the item at hand.
C13_FirstWriterWins ==
    [][/\ \A id \in DOMAIN track_metadata :
             /\ id \in DOMAIN track_metadata'
             /\ track_metadata'[id].name = track_metadata[id].name
             /\ track_metadata'[id].artists = track_metadata[id].artists
             /\ LET old == track_metadata[id].playlists
                    new == track_metadata'[id].playlists
                IN  Len(old) <= Len(new) /\ SubSeq(new, 1, Len(old)) = old
       /\ \A id \in DOMAIN track_metadata' \ DOMAIN track_metadata :
             /\ pc = "items" /\ item_no <= Len(tracks)
             /\ ItemValid(ItemAtHand)
             /\ ItemAtHand.track.id = id
             /\ track_metadata'[id].name = ItemAtHand.track.name
             /\ track_metadata'[id].artists = Join(", ", ItemAtHand.track.artists)
      ]_vars

\* C13 witness: t1 was stored as "A" by "X"; the item processed last lists
\* t1 as "B" by "X" and "Y", and the entry still reads "A" by "X", with a
\* second source
C13_Witness ==
    /\ pc = "items"
    /\ item_no > 1
    /\ tracks[item_no - 1] =
          [track |-> [id |-> "t1", name |-> "B", artists |-> <<"X", "Y">>]]
    /\ "t1" \in DOMAIN track_metadata
    /\ track_metadata["t1"].name = "A"
    /\ track_metadata["t1"].artists = "X"
    /\ Len(track_metadata["t1"].playlists) = 2

\* C14: the sources recorded for a track form a set: no playlist name is
\* twice in the source list of a track.
C14_SourcesFormSet ==
    \A id \in DOMAIN track_metadata : IsInjective(track_metadata[id].playlists)

----------------------------------------------------------------------------
(* A further claim about analyze_tracks, checked under Spec. *)

\* the places <<request, position>> where the remote answered for an id with
\* a feature record
AnsweredAt(id) ==
    {p \in (DOMAIN requests) \X (1..batch_size) :
        /\ requests[p[1]].outcome = "ok"
        /\ p[2] <= Len(requests[p[1]].ids)
        /\ requests[p[1]].ids[p[2]] = id
        /\ requests[p[1]].response[p[2]] # None}

\* the rows of results that carry an id
RowsFor(id) == {k \in DOMAIN results : results[k].id = id}

\* C15: results holds exactly one row for each requested id whose batch was
\* fetched and whose aligned entry of the response is a feature record, with
\* that entry's features; it holds no row for an id whose entry is None or
\* whose batch was not fetched, no id has two rows, and no row carries an id
\* that was not requested.
C15_OneRowPerAnsweredId ==
    script = "spotipy2" =>
        /\ \A id \in AllTrackIds :
              /\ Cardinality(RowsFor(id)) = Cardinality(AnsweredAt(id))
              /\ Cardinality(RowsFor(id)) <= 1
              /\ \A k \in RowsFor(id) : \A p \in AnsweredAt(id) :
                    LET f == requests[p[1]].response[p[2]]
                    IN  /\ results[k].tempo = f.tempo
                        /\ results[k].loudness = f.loudness
                        /\ results[k].energy = f.energy
                        /\ results[k].mode = f.mode
                        /\ results[k].name = track_metadata[id].name
        /\ \A k \in DOMAIN results :
              results[k].id \in Range(RequestedIds(Len(requests)))
        /\ pc \in {"batches", "done"}

\* C15 witness: three ids in batches of two; the first batch was answered
\* with None for its first id and a record for its second, the second batch
\* failed; analyze_tracks returned one row, the one of the second id
C15_Witness ==
    /\ script = "spotipy2" /\ pc = "done"
    /\ Len(track_ids) = 3 /\ batch_size = 2
    /\ Len(requests) = 2
    /\ requests[1].outcome = "ok"
    /\ requests[1].response = <<None, FGood>>
    /\ requests[2].outcome = "recoverable"
    /\ Len(results) = 1
    /\ results[1].id = track_ids[2]
    /\ results[1].tempo = FGood.tempo

----------------------------------------------------------------------------
(* A further claim about GenreConsolidator, checked under SpecGenres. *)

\* no subgenre string is in the sets of two categories
DisjointTaxonomy(mappings) ==
    \A j \in DOMAIN mappings, k \in DOMAIN mappings :
        j # k => mappings[j].subgenres \cap mappings[k].subgenres = {}

----------------------------------------------------------------------------
(* Further claims about the item loop, checked under SpecItems. *)

\* an item without a track, or whose track has no id or an empty one
Unusable(item) ==
    \/ item.track = None
    \/ item.track.id = NoneStr
    \/ item.track.id = ""

\* C17: an item with a missing track or a null or empty id is dropped: the
\* step that processes it leaves all_track_ids and track_metadata as they
\* are and moves to the next item; no such id is ever aggregated; and when
\* the loop ends every other item of the list has been aggregated, with the
\* playlist among its sources.
C17_InvalidItemsDropped ==
    /\ [](/\ all_track_ids \cap {NoneStr, ""} = {}
          /\ DOMAIN track_metadata \cap {NoneStr, ""} = {})
    /\ [][(pc = "items" /\ item_no <= Len(tracks) /\ Unusable(ItemAtHand)) =>
             /\ all_track_ids' = all_track_ids
             /\ track_metadata' = track_metadata
             /\ pc' = "items"
             /\ item_no' = item_no + 1]_vars
    /\ [](pc = "items_done" =>
            \A k \in DOMAIN tracks :
                ~Unusable(tracks[k]) =>
                    /\ tracks[k].track.id \in all_track_ids
                    /\ tracks[k].track.id \in DOMAIN track_metadata
                    /\ \E j \in DOMAIN track_metadata[tracks[k].track.id].playlists :
                          track_metadata[tracks[k].track.id].playlists[j]
                              = playlist_info[Strip(playlist_ids[pi])])

\* C17 witness: the first playlist lists an item without a track and then
\* t1; the loop ended with t1 aggregated and nothing else
C17_Witness ==
    /\ pc = "items_done"
    /\ pi = 1
    /\ tracks = <<[track |-> None],
                 [track |-> [id |-> "t1", name |-> "A", artists |-> <<"X">>]]>>
    /\ all_track_ids = {"t1"}
    /\ DOMAIN track_metadata = {"t1"}
    /\ track_metadata["t1"].playlists = <<"Mix">>

----------------------------------------------------------------------------
(* A claim about get_playlist_tracks, checked under SpecPages. *)

\* C18: get_playlist_tracks always terminates: whatever the remote does, the
\* call returns in the end (a failing request is retried a bounded number of
\* times only).
C18_AlwaysTerminates == <>(pc = "returned")

\* once get_playlist_tracks has returned, the list is the playlist's items
\* in remote order, each once; before that it is a prefix of them
PagesInOffsetOrder ==
    /\ tracks = SubSeq(remote, 1, Len(tracks))
    /\ pc = "returned" => tracks = remote

----------------------------------------------------------------------------
(* A claim about get_artist_genres, checked under SpecCache. *)

\* the sp.artist calls for an artist that were answered
Answered(a) == {k \in DOMAIN calls : calls[k].artist = a /\ calls[k].outcome = "ok"}

\* C19: an artist is in the cache exactly when one of its lookups was
\* answered, with the genres answered then; no artist has two answered
\* lookups and no lookup is made for an artist after its answered one.  A
\* call for a cached artist makes no lookup, leaves the cache as it is and
\* returns the cached genres; a call for an artist not cached makes one
\* lookup, and when that fails it returns the empty list and leaves the cache
\* as it is, so the artist is still not cached for the next call.
C19_LookupOncePerArtist ==
    /\ [](\A a \in Artists :
            /\ Cardinality(Answered(a)) <= 1
            /\ a \in DOMAIN genre_cache <=> Answered(a) # {}
            /\ \A k \in Answered(a) :
                  /\ genre_cache[a] = calls[k].genres
                  /\ \A j \in DOMAIN calls : j > k => calls[j].artist # a)
    /\ [][IF artist_id' \in DOMAIN genre_cache
          THEN /\ calls' = calls
               /\ genre_cache' = genre_cache
               /\ returned' = genre_cache[artist_id']
          ELSE /\ Len(calls') = Len(calls) + 1
               /\ SubSeq(calls', 1, Len(calls)) = calls
               /\ calls'[Len(calls')].artist = artist_id'
               /\ IF calls'[Len(calls')].outcome = "ok"
                  THEN /\ returned' = calls'[Len(calls')].genres
                       /\ genre_cache' =
                             DictSet(genre_cache, artist_id', calls'[Len(calls')].genres)
                  ELSE /\ returned' = <<>>
                       /\ genre_cache' = genre_cache]_vars

\* C19 witness: the lookup for a1 failed, the next one was answered with
\* rock, then a lookup was made for a2; the call made last, for a1, returned
\* rock without a lookup
C19_Witness ==
    /\ Len(calls) = 3
    /\ calls[1] = [artist |-> "a1", outcome |-> "error", genres |-> <<>>]
    /\ calls[2] = [artist |-> "a1", outcome |-> "ok", genres |-> <<"rock">>]
    /\ calls[3].artist = "a2"
    /\ artist_id = "a1"
    /\ returned = <<"rock">>

----------------------------------------------------------------------------
(* A further claim about collect_all_tracks, checked under SpecCollect. *)

\* C20: while the playlists are read the ids seen are the keys of
\* track_metadata and every entry has a source; when collect_all_tracks has
\* returned, the ids of the list returned, each once, are the keys of the
\* dict returned, whatever playlists failed or were skipped, so that
\* track_metadata[track_id] in analyze_tracks finds every id of the list.
C20_IdsMatchMetadata ==
    /\ pc = "collect" => all_track_ids = DOMAIN track_metadata
    /\ \A id \in DOMAIN track_metadata : Len(track_metadata[id].playlists) >= 1
    /\ pc = "collected" =>
          /\ Range(track_ids) = DOMAIN track_metadata
          /\ IsInjective(track_ids)

\* C20 witness: of two playlists the first failed (its name was never
\* stored) and the second listed t1 and t2: both are returned and both have
\* an entry
C20_Witness ==
    /\ pc = "collected"
    /\ playlist_ids = <<<<"p", "1">>, <<"p", "2", " ">>>>
    /\ DOMAIN playlist_info = {<<"p", "2">>}
    /\ Len(track_ids) = 2
    /\ DOMAIN track_metadata = {"t1", "t2"}

====
